---- MODULE Spec2Model ----
(***************************************************************************)
(* Model of the shikhbo-backend request handlers (src/main.py and          *)
(* src/admin.py) over a Firestore-like document store.                     *)
(*                                                                         *)
(* Short strings that are used to build document keys (class level,        *)
(* subject, chapter id, session id) are sequences of one-character         *)
(* strings, so that joining and the replacement of spaces are computed.    *)
(* Long texts (book text, chat messages, model replies) are prefixes of    *)
(* a named source string: [src, len] is the first len characters of src,   *)
(* so that slicing text[:n] is computed as Python computes it.             *)
(***************************************************************************)
EXTENDS Integers, Sequences, FiniteSets, TLC

VARIABLES
    now,                 \* the wall clock, int(time.time() * 1000)
    book_content,        \* collection book_content: key -> document or NoDoc
    curriculum_metadata, \* collection curriculum_metadata: key -> document or NoDoc
    users,               \* collection users: user id -> document or NoDoc
    sessions,            \* users/{id}/chat_sessions: <<user id, session id>> -> document or NoDoc
    messages,            \* .../chat_sessions/{id}/messages: <<user id, session id>> -> the
                         \* message documents, in the order they were added
    global_stats,        \* admin/global_stats: total_tokens
    api_key,             \* whether GEMINI_API_KEY is set in the environment
    chat,                \* the chat requests in flight
    upl,                 \* the admin_upload_content requests in flight
    resp                 \* the response of the last request answered in one step

vars == <<now, book_content, curriculum_metadata, users, sessions, messages,
          global_stats, api_key, chat, upl, resp>>

contentVars == <<book_content, curriculum_metadata>>
userVars == <<users, sessions>>
chatVars == <<messages, global_stats, api_key, chat>>

----------------------------------------------------------------------------
\* Bounds of the model

MaxClock == 2
MaxUploads == 2

----------------------------------------------------------------------------
\* Strings

NoDoc == [exists |-> FALSE]
Doc(data) == [exists |-> TRUE, data |-> data]

\* None, for an optional request field that holds a name
None == "None"

Min(a, b) == IF a < b THEN a ELSE b

\* str.replace(" ", "_")
ReplaceSpaces(s) == [i \in 1..Len(s) |-> IF s[i] = " " THEN "_" ELSE s[i]]

\* f"{a}_{b}"
Join2(a, b) == a \o <<"_">> \o b

\* f"{a}_{b}_{c}"
Join3(a, b, c) == a \o <<"_">> \o b \o <<"_">> \o c

\* text[:n]
Slice(t, n) == [src |-> t.src, len |-> Min(t.len, n)]

EmptyText == [src |-> "", len |-> 0]

----------------------------------------------------------------------------
\* Request inputs

ClassLevels == { <<"C", " ", "9">>, <<"C", "_", "9">> }
Groups == { <<"S">> }
Subjects == { <<"P">>, <<"M">> }
ChapterIds == { <<"c", "1">>, <<"c", "2">>, <<"c", "3">> }
ChapterTitles == { [title |-> "T1", titleBn |-> "B1"], [title |-> "T2", titleBn |-> "B2"] }

UserIds == { "u1", "u2" }
Mobiles == { "m1", "m2" }
Emails == { "e1", "e2" }
SessionIds == { <<"s", "1">>, <<"P", "_", "c", "1">>, <<"P", "_", "c", "2">> }
SessionKeys == UserIds \X SessionIds
NewTitles == { "My chat" }

NoResponse == [op |-> "none"]

ChatProcs == { 1, 2 }
IdleChat == [pc |-> "idle"]

BookA == "Gravity is a force..."
BookTexts == { [src |-> BookA, len |-> 21] }

\* rag_doc_id / doc_id of a book_content document
BookKey(class_level, subject, chapter_id) ==
    ReplaceSpaces(Join3(class_level, subject, chapter_id))

\* curr_doc_id / doc_id of a curriculum_metadata document
CurrKey(class_level, group) == ReplaceSpaces(Join2(class_level, group))

BookKeys == { BookKey(c, s, ch) : c \in ClassLevels, s \in Subjects, ch \in ChapterIds }
CurrKeys == { CurrKey(c, g) : c \in ClassLevels, g \in Groups }

----------------------------------------------------------------------------
\* Documents

\* A document's data is a function whose domain is the fields it holds. A
\* curriculum_metadata document maps each subject it holds to a list of
\* chapter descriptors.

\* doc.to_dict() if doc.exists else {}
ToDictOrEmpty(doc) == IF doc.exists THEN doc.data ELSE <<>>

\* Mutant: the subject's list is never found in the document.
GetList_Missing(curr_data, subject) == <<>>

\* curr_data.get(subject, [])
GetList(curr_data, subject) ==
    IF subject \in DOMAIN curr_data THEN curr_data[subject] ELSE <<>>

\* Mutant: the write replaces the document instead of merging into it.
SetMerge_Overwrite(doc, update) == Doc(update)

\* doc_ref.set(update, merge=True) on a document or on NoDoc
SetMerge(doc, update) ==
    LET old == ToDictOrEmpty(doc)
    IN  Doc([f \in (DOMAIN old) \cup (DOMAIN update) |->
                IF f \in DOMAIN update THEN update[f] ELSE old[f]])

\* Mutant: the search for the chapter id never finds it.
ExistingIndex_Never(subject_list, chapter_id) == 0

\* next((index for (index, d) in enumerate(subject_list) if d["id"] == chapter_id), None)
\* The position is 1-based here and 0 stands for None.
ExistingIndex(subject_list, chapter_id) ==
    LET hits == { i \in 1..Len(subject_list) : subject_list[i].id = chapter_id }
    IN  IF hits = {} THEN 0 ELSE CHOOSE i \in hits : \A j \in hits : i <= j

NewChapterMeta(data) ==
    [id |-> data.chapter_id, title |-> data.chapter_title, titleBn |-> data.chapter_title_bn]

\* Mutant: the duplicate check is skipped and the descriptor always appended.
MergeChapter_AlwaysAppend(subject_list, meta) == Append(subject_list, meta)

\* subject_list[existing_index] = new_chapter_meta, else subject_list.append(new_chapter_meta)
MergeChapter(subject_list, meta) ==
    LET existing_index == ExistingIndex(subject_list, meta.id)
    IN  IF existing_index # 0
        THEN [subject_list EXCEPT ![existing_index] = meta]
        ELSE Append(subject_list, meta)

----------------------------------------------------------------------------
\* admin.py: POST /admin/upload-content

UploadProcs == 1..MaxUploads

\* The class levels the modelled admin uploads are for.
UploadClassLevels == { <<"C", " ", "9">> }

AdminContentUploads ==
    { [class_level |-> c, group |-> g, subject |-> s, chapter_id |-> ch,
       chapter_title |-> t.title, chapter_title_bn |-> t.titleBn, text_content |-> x] :
        c \in UploadClassLevels, g \in Groups, s \in Subjects, ch \in ChapterIds,
        t \in ChapterTitles, x \in BookTexts }

IdleUpload == [pc |-> "idle"]

\* Step 1: the request arrives and the book text is written (its updated_at
\* field, which no handler reads, is left out). Requests are numbered in
\* the order they arrive.
admin_upload_content_book(p) ==
    /\ upl[p].pc = "idle"
    /\ \A q \in UploadProcs : q < p => upl[q].pc # "idle"
    /\ \E data \in AdminContentUploads :
        /\ book_content' =
              [book_content EXCEPT
                 ![BookKey(data.class_level, data.subject, data.chapter_id)] =
                     Doc([text_content |-> data.text_content])]
        /\ upl' = [upl EXCEPT ![p] = [pc |-> "read", data |-> data]]
    /\ UNCHANGED <<now, curriculum_metadata, userVars, resp, chatVars>>

\* Step 2: doc = curr_ref.get(); subject_list = curr_data.get(data.subject, []).
\* overlapped is a history field: the requests that wrote their list back
\* between this request's read and its own write.
admin_upload_content_read(p) ==
    /\ upl[p].pc = "read"
    /\ LET data == upl[p].data
           doc == curriculum_metadata[CurrKey(data.class_level, data.group)]
           curr_data == ToDictOrEmpty(doc)
       IN  upl' = [upl EXCEPT ![p] = [pc |-> "write", data |-> data,
                                      subject_list |-> GetList(curr_data, data.subject),
                                      overlapped |-> {}]]
    /\ UNCHANGED <<now, contentVars, userVars, resp, chatVars>>

\* Step 2 when the read raises: except Exception -> HTTP 500.
admin_upload_content_read_fails(p) ==
    /\ upl[p].pc = "read"
    /\ upl' = [upl EXCEPT ![p] = [pc |-> "done", data |-> upl[p].data, status |-> 500]]
    /\ UNCHANGED <<now, contentVars, userVars, resp, chatVars>>

\* Step 3: the merged list is written back and the request answers success.
admin_upload_content_write(p) ==
    /\ upl[p].pc = "write"
    /\ LET data == upl[p].data
           key == CurrKey(data.class_level, data.group)
           subject_list == MergeChapter(upl[p].subject_list, NewChapterMeta(data))
       IN  /\ curriculum_metadata' =
                 [curriculum_metadata EXCEPT
                    ![key] = SetMerge(@, [f \in {data.subject} |-> subject_list])]
           /\ upl' = [q \in UploadProcs |->
                        IF q = p
                        THEN [pc |-> "done", data |-> data, status |-> 200,
                              read_list |-> upl[p].subject_list,
                              overlapped |-> upl[p].overlapped]
                        ELSE IF upl[q].pc = "write"
                        THEN [upl[q] EXCEPT !.overlapped = @ \cup {p}]
                        ELSE upl[q]]
    /\ UNCHANGED <<now, book_content, userVars, resp, chatVars>>

\* Curriculum documents an earlier run of the admin endpoints has left.
Chapter(id, t) == [id |-> id, title |-> t.title, titleBn |-> t.titleBn]

InitialCurricula ==
    { [k \in CurrKeys |-> NoDoc] } \cup
    { [k \in CurrKeys |->
         Doc([s \in { <<"P">> } |->
            << Chapter(<<"c", "1">>, [title |-> "T1", titleBn |-> "B1"]),
               Chapter(<<"c", "2">>, [title |-> "T1", titleBn |-> "B1"]) >>])] }

InitUpload ==
    /\ now = 0
    /\ book_content = [k \in BookKeys |-> NoDoc]
    /\ curriculum_metadata \in InitialCurricula
    /\ users = [u \in UserIds |-> NoDoc]
    /\ sessions = [k \in SessionKeys |-> NoDoc]
    /\ messages = [k \in SessionKeys |-> <<>>]
    /\ global_stats = 0
    /\ api_key = TRUE
    /\ chat = [p \in ChatProcs |-> IdleChat]
    /\ upl = [p \in UploadProcs |-> IdleUpload]
    /\ resp = NoResponse

NextUpload ==
    \/ \E p \in UploadProcs :
         \/ admin_upload_content_book(p)
         \/ admin_upload_content_read(p)
         \/ admin_upload_content_read_fails(p)
         \/ admin_upload_content_write(p)

SpecUpload == InitUpload /\ [][NextUpload]_vars

----------------------------------------------------------------------------
\* User and session endpoints of main.py and admin.py

Handlers == { "main", "admin" }

\* The database call of a request that raises, if any
AvailabilityFaults == { "none", "phone_query", "email_query" }

AvailabilityRequests == [email : Emails, mobile : Mobiles]

\* db.collection("users").where(field, "==", value).limit(1).stream() is not empty
UserWith(field, value) ==
    \E u \in UserIds :
        /\ users[u].exists
        /\ field \in DOMAIN users[u].data
        /\ users[u].data[field] = value

\* except Exception of check_availability: main.py answers {"available": True},
\* admin.py answers HTTP 500.
AvailabilityOnError(h) ==
    IF h = "main" THEN [status |-> 200, available |-> TRUE]
    ELSE [status |-> 500, detail |-> "exception"]

\* POST /auth/check-availability
CheckAvailability(h, req, fault) ==
    IF fault = "phone_query" THEN AvailabilityOnError(h)
    ELSE IF UserWith("mobile", req.mobile)
    THEN [status |-> 409, detail |-> "Mobile number already registered"]
    ELSE IF fault = "email_query" THEN AvailabilityOnError(h)
    ELSE IF UserWith("email", req.email)
    THEN [status |-> 409, detail |-> "Email already registered"]
    ELSE [status |-> 200, available |-> TRUE]

check_availability(h) ==
    /\ \E req \in AvailabilityRequests, fault \in AvailabilityFaults :
         resp' = [op |-> "check_availability", handler |-> h, req |-> req,
                  fault |-> fault, result |-> CheckAvailability(h, req, fault)]
    /\ UNCHANGED <<now, contentVars, userVars, upl, chatVars>>

\* The profile requests modelled carry the user id and optionally a mobile
\* and an email; every other optional field is None.
ProfileRequests ==
    [user_id : UserIds, mobile : {"m1", None}, email : {"e1", None}]

\* {k: v for k, v in profile.dict().items() if v is not None}
GivenFields(profile, fields) ==
    LET given == { f \in fields : profile[f] # None }
    IN  [f \in given |-> profile[f]]

\* main.py save_profile: user_id is stored too, name is "" when no name part
\* is given, updated_at is the server's timestamp.
\* admin.py update_user_profile: user_id is left out, name is set only when
\* first_name is given, last_active is the handler's clock reading.
ProfileUpdate(h, profile) ==
    IF h = "main"
    THEN GivenFields(profile, {"user_id", "mobile", "email"})
            @@ [f \in {"name", "updated_at"} |-> IF f = "name" THEN "" ELSE now]
    ELSE GivenFields(profile, {"mobile", "email"})
            @@ [f \in {"last_active"} |-> now]

\* POST /user/profile
save_profile(h) ==
    /\ \E profile \in ProfileRequests :
         /\ users' = [users EXCEPT ![profile.user_id] = SetMerge(@, ProfileUpdate(h, profile))]
         /\ resp' = [op |-> "save_profile", handler |-> h, req |-> profile,
                      result |-> [status |-> 200]]
    /\ UNCHANGED <<now, contentVars, sessions, upl, chatVars>>

\* GET /user/{user_id}. main.py raises its 404 inside the try block, whose
\* except Exception turns it into a 500; admin.py re-raises an HTTPException.
GetProfile(h, user_id) ==
    IF users[user_id].exists
    THEN [status |-> 200, body |-> users[user_id].data]
    ELSE IF h = "main"
    THEN [status |-> 500, detail |-> "404: User not found"]
    ELSE [status |-> 404, detail |-> "User profile not found"]

get_profile(h) ==
    /\ \E user_id \in UserIds :
         resp' = [op |-> "get_profile", handler |-> h, req |-> [user_id |-> user_id],
                  result |-> GetProfile(h, user_id)]
    /\ UNCHANGED <<now, contentVars, userVars, upl, chatVars>>

\* PATCH /session/{session_id}/rename, the same in main.py and admin.py: the
\* 404 is raised inside the try block and except Exception answers 500.
RenameStatus(h, key) == IF sessions[key].exists THEN 200 ELSE 500

rename_session_of(h, user_id, session_id, new_title) ==
    LET key == <<user_id, session_id>>
    IN  /\ sessions' =
              IF sessions[key].exists
              THEN [sessions EXCEPT ![key] =
                       SetMerge(@, [f \in {"custom_title"} |-> new_title])]
              ELSE sessions
        /\ resp' = [op |-> "rename_session", handler |-> h,
                     req |-> [user_id |-> user_id, session_id |-> session_id,
                              new_title |-> new_title],
                     result |-> [status |-> RenameStatus(h, key)]]
        /\ UNCHANGED <<now, contentVars, users, upl, chatVars>>

rename_session(h) ==
    \E user_id \in UserIds, session_id \in SessionIds, new_title \in NewTitles :
        rename_session_of(h, user_id, session_id, new_title)

\* DELETE /session/{session_id}: only the session document is deleted.
\* Mutant: the delete takes the session's messages with it.
delete_session_of_WithMessages(h, user_id, session_id) ==
    /\ sessions' = [sessions EXCEPT ![<<user_id, session_id>>] = NoDoc]
    /\ messages' = [messages EXCEPT ![<<user_id, session_id>>] = <<>>]
    /\ resp' = [op |-> "delete_session", handler |-> h,
                 req |-> [user_id |-> user_id, session_id |-> session_id],
                 result |-> [status |-> 200]]
    /\ UNCHANGED <<now, contentVars, users, upl, global_stats, api_key, chat>>

delete_session_of(h, user_id, session_id) ==
    /\ sessions' = [sessions EXCEPT ![<<user_id, session_id>>] = NoDoc]
    /\ resp' = [op |-> "delete_session", handler |-> h,
                 req |-> [user_id |-> user_id, session_id |-> session_id],
                 result |-> [status |-> 200]]
    /\ UNCHANGED <<now, contentVars, users, upl, chatVars>>

delete_session(h) ==
    \E user_id \in UserIds, session_id \in SessionIds :
        delete_session_of(h, user_id, session_id)

\* Session documents as a chat turn leaves them.
SessionData(subject, chapter, class_level, group, updated_at, last_message) ==
    [subject |-> subject, chapter |-> chapter, class_level |-> class_level,
     group |-> group, updated_at |-> updated_at, last_message |-> last_message]

InitialSessions ==
    { [k \in SessionKeys |-> NoDoc] } \cup
    { [k \in SessionKeys |->
         IF k = << "u1", <<"s", "1">> >>
         THEN Doc(SessionData(<<"P">>, <<"c", "1">>, <<"C", " ", "9">>, <<"S">>, 0,
                              [src |-> "what is gravity", len |-> 15]))
         ELSE NoDoc] }

InitUsers ==
    /\ now = 0
    /\ book_content = [k \in BookKeys |-> NoDoc]
    /\ curriculum_metadata = [k \in CurrKeys |-> NoDoc]
    /\ users = [u \in UserIds |-> NoDoc]
    /\ sessions \in InitialSessions
    /\ messages = [k \in SessionKeys |-> <<>>]
    /\ global_stats = 0
    /\ api_key = TRUE
    /\ chat = [p \in ChatProcs |-> IdleChat]
    /\ upl = [p \in UploadProcs |-> IdleUpload]
    /\ resp = NoResponse

\* The clock stands still here: no handler of this specification reads the
\* timestamps it stores.
NextUsers ==
    \/ \E h \in Handlers :
         \/ check_availability(h)
         \/ save_profile(h)
         \/ get_profile(h)
         \/ rename_session(h)
         \/ delete_session(h)

SpecUsers == InitUsers /\ [][NextUsers]_vars

----------------------------------------------------------------------------
\* Chat: requests, texts and the generative model

ContextBudget == 10000
HistoryLimit == 10
PreviewLenMain == 60
PreviewLenAdmin == 50
HistoryPageMain == 100
HistoryPageAdmin == 50

\* No session id given: None and "" are both false in `if request.session_id`
NoSessionId == <<>>

QuestionLong == [src |-> "please explain newton's law of universal gravitation step by step...", len |-> 70]
ChatMessages == { QuestionLong }

BookLong == [src |-> "Chapter 1. Motion ...", len |-> 10001]
ContextTexts == BookTexts \cup { BookLong }

ChatClassLevels == { <<"C", " ", "9">> }
ChatSubjects == { <<"P">> }
ChatChapterIds == { <<"c", "1">>, <<"c", "2">> }
Mediums == { "Bangla Medium" }

\* The chapters the modelled context uploads are for
ContextChapterIds == { <<"c", "1">> }

\* A ChatRequest; main.py requires session_id, admin.py defaults it to None.
ChatRequests(h) ==
    [user_id : IF h = "main" THEN { "u1" } ELSE UserIds,
     message : ChatMessages, class_level : ChatClassLevels,
     group : Groups, subject : ChatSubjects, chapter_id : ChatChapterIds,
     session_id : IF h = "main" THEN { <<"s", "1">> } ELSE { NoSessionId, <<"s", "1">> },
     medium : Mediums]

\* What the call to the generative model does
ModelOutcomes == { "ok", "network", "non200", "bad_body" }

ModelReply == [src |-> "Gravity pulls things together.", len |-> 30]
ModelTokens == 7

ApologyThinking ==
    [src |-> "I am having trouble thinking right now. Please try again.", len |-> 57]
ApologyConnecting ==
    [src |-> "Sorry, I am having trouble connecting to the internet.", len |-> 54]
ApiKeyMissing == [src |-> "System Error: Gemini API Key is missing.", len |-> 40]

\* f"System Error: {str(e)}": the text carries the exception's message.
SystemError(e) ==
    CASE e = "network" -> [src |-> "System Error: connection failed", len |-> 31]
      [] e = "non200" -> [src |-> "System Error: 500 internal error", len |-> 32]
      [] OTHER -> [src |-> "System Error: response has no text", len |-> 34]

\* main.py get_system_instruction
get_system_instruction(class_level, group, medium, subject) ==
    [class_level |-> class_level, group |-> group, medium |-> medium, subject |-> subject,
     lang_rule |-> IF medium = "English Version" THEN "english" ELSE "bangla"]

\* admin.py chat_tutor: system_instruction
AdminSystemInstruction(class_level, group, medium) ==
    [class_level |-> class_level, group |-> group,
     lang_instruction |-> IF medium = "English Version" THEN "english" ELSE "tanglish"]

\* admin.py call_gemini_raw: the reply, or a canned apology
call_gemini_raw(outcome) ==
    CASE outcome = "ok" -> ModelReply
      [] outcome = "non200" -> ApologyThinking
      [] OTHER -> ApologyConnecting

\* The handler's context when no book_content document is found
Fallback(h) ==
    IF h = "main" THEN EmptyText
    ELSE [src |-> "No specific book content found. Use general knowledge.", len |-> 54]

\* doc.to_dict().get("text_content", "")
TextContent(doc) ==
    IF "text_content" \in DOMAIN doc.data THEN doc.data.text_content ELSE EmptyText

\* The context lookup. main.py fetch_book_context swallows an exception and
\* returns ""; admin.py reads the document inside chat_tutor's try block.
LookupContext(h, doc, fault) ==
    IF fault THEN [raised |-> h = "admin", text |-> EmptyText]
    ELSE IF doc.exists THEN [raised |-> FALSE, text |-> TextContent(doc)]
    ELSE [raised |-> FALSE, text |-> Fallback(h)]

\* The context as the prompt carries it: book_context[:10000] in main.py,
\* book_context in admin.py.
PromptContext(h, book_context) ==
    IF h = "main" THEN Slice(book_context, ContextBudget) ELSE book_context

\* Mutant: the caller's session id is ignored.
ChatSessionId_AlwaysDerived(req) == Join2(req.subject, req.chapter_id)

\* admin.py chat_tutor: session_id
ChatSessionId(req) ==
    IF req.session_id # NoSessionId THEN req.session_id
    ELSE Join2(req.subject, req.chapter_id)

\* The session a chat request writes to
ChatKey(h, req) == <<req.user_id, IF h = "main" THEN req.session_id ELSE ChatSessionId(req)>>

Message(text, sender, timestamp, turn) ==
    [text |-> text, sender |-> sender, timestamp |-> timestamp, turn |-> turn]

----------------------------------------------------------------------------
\* Queries on a message collection. Firestore orders documents with equal
\* timestamps by their generated names, so every order of them can come back.

RECURSIVE AscOrders(_, _)
AscOrders(M, S) ==
    IF S = {} THEN { <<>> }
    ELSE LET first == { i \in S : \A j \in S : M[i].timestamp <= M[j].timestamp }
         IN  UNION { { <<i>> \o rest : rest \in AscOrders(M, S \ {i}) } : i \in first }

RECURSIVE DescOrders(_, _)
DescOrders(M, S) ==
    IF S = {} THEN { <<>> }
    ELSE LET first == { i \in S : \A j \in S : M[i].timestamp >= M[j].timestamp }
         IN  UNION { { <<i>> \o rest : rest \in DescOrders(M, S \ {i}) } : i \in first }

\* .limit(n)
Limit(seq, n) == SubSeq(seq, 1, Min(n, Len(seq)))

\* sorted(docs, key=lambda x: x['timestamp']): stable
RECURSIVE SortedByTimestamp(_, _)
SortedByTimestamp(M, idx) ==
    IF idx = <<>> THEN <<>>
    ELSE LET n == Len(idx)
             front == SortedByTimestamp(M, SubSeq(idx, 1, n - 1))
             x == idx[n]
             keep == { k \in 1..Len(front) : M[front[k]].timestamp <= M[x].timestamp }
             at == Cardinality(keep)
         IN  SubSeq(front, 1, at) \o <<x>> \o SubSeq(front, at + 1, Len(front))

Docs(M, idx) == [k \in 1..Len(idx) |-> M[idx[k]]]

\* main.py: order_by("timestamp", DESCENDING).limit(10), then sorted by timestamp
RecentHistoryMain(M) ==
    { Docs(M, SortedByTimestamp(M, Limit(d, HistoryLimit))) : d \in DescOrders(M, 1..Len(M)) }

\* admin.py: order_by("timestamp").limit(10)
RecentHistoryAdmin(M) ==
    { Docs(M, Limit(a, HistoryLimit)) : a \in AscOrders(M, 1..Len(M)) }

RecentHistory(h, M) == IF h = "main" THEN RecentHistoryMain(M) ELSE RecentHistoryAdmin(M)

\* history_text: one "Student: ..." or "Tutor: ..." line per message
HistoryText(history) ==
    [k \in 1..Len(history) |->
        [role |-> IF history[k].sender = "user" THEN "Student" ELSE "Tutor",
         text |-> history[k].text]]

----------------------------------------------------------------------------
\* POST /chat. A request in flight records the handler's local variables;
\* failed_at names the step whose exception ended the request, and the turn
\* number carried by a message is the request that wrote it.

NoPrompt == [built |-> FALSE]
NoResult == [status |-> 0]

Reply(text) == [status |-> 200, reply |-> text]
Http500 == [status |-> 500]

\* int(time.time() * 1000): the clock never goes back, and a reading is any
\* time from the last reading on (now is the last reading).
ClockReadings == now..MaxClock

Started(h, req, pc, t) ==
    [pc |-> pc, handler |-> h, req |-> req, key |-> ChatKey(h, req), timestamp |-> t,
     book_read |-> "none", book_doc |-> NoDoc, book_context |-> EmptyText,
     history |-> <<>>, prompt |-> NoPrompt, outcome |-> "none", ai_reply |-> EmptyText,
     failed_at |-> "none", result |-> NoResult]

Finish(c, failed_at, result) ==
    [c EXCEPT !.pc = "done", !.failed_at = failed_at, !.result = result]

At(p, h, pc) == chat[p].pc = pc /\ chat[p].handler = h

\* The chat requests are served one at a time, in the order of their numbers.
Arrives(p) ==
    /\ chat[p].pc = "idle"
    /\ \A q \in ChatProcs : q < p => chat[q].pc = "done"

\* session_data / the dictionary of session_ref.set(..., merge=True)
SessionUpdate(h, req, timestamp) ==
    SessionData(req.subject, req.chapter_id, req.class_level, req.group, timestamp,
                Slice(req.message, IF h = "main" THEN PreviewLenMain ELSE PreviewLenAdmin))

\* firestore.Increment(n) on a field that may be missing
Increment(doc, field, n) ==
    IF field \in DOMAIN doc.data THEN doc.data[field] + n ELSE n

\* ---- main.py chat_tutor

\* Lines 169-182: without an API key the handler answers at once; otherwise
\* it reads the clock and adds the user message.
chat_tutor_main_start(p) ==
    /\ Arrives(p)
    /\ \E req \in ChatRequests("main"), t \in ClockReadings :
         IF ~api_key
         THEN /\ chat' = [chat EXCEPT ![p] =
                    Finish(Started("main", req, "done", now), "no_api_key",
                           Reply(ApiKeyMissing))]
              /\ UNCHANGED <<now, messages>>
         ELSE /\ now' = t
              /\ chat' = [chat EXCEPT ![p] = Started("main", req, "session", t)]
              /\ messages' = [messages EXCEPT ![ChatKey("main", req)] =
                    Append(@, Message(req.message, "user", t, p))]
    /\ UNCHANGED <<contentVars, userVars, global_stats, api_key, upl, resp>>

\* Lines 184-192
chat_tutor_main_session(p) ==
    /\ At(p, "main", "session")
    /\ sessions' = [sessions EXCEPT ![chat[p].key] =
          SetMerge(@, SessionUpdate("main", chat[p].req, chat[p].timestamp))]
    /\ chat' = [chat EXCEPT ![p].pc = "context"]
    /\ UNCHANGED <<now, contentVars, users, messages, global_stats, api_key, upl, resp>>

\* Line 196: fetch_book_context
chat_tutor_main_context(p) ==
    /\ At(p, "main", "context")
    /\ \E fault \in BOOLEAN :
         LET req == chat[p].req
             doc == book_content[BookKey(req.class_level, req.subject, req.chapter_id)]
             got == LookupContext("main", doc, fault)
         IN  chat' = [chat EXCEPT ![p] =
                [@ EXCEPT !.pc = "history",
                          !.book_read = IF fault THEN "error"
                                        ELSE IF doc.exists THEN "doc" ELSE "missing",
                          !.book_doc = IF fault THEN NoDoc ELSE doc,
                          !.book_context = got.text]]
    /\ UNCHANGED <<now, contentVars, userVars, messages, global_stats, api_key, upl, resp>>

\* Lines 198-204
chat_tutor_main_history(p) ==
    /\ At(p, "main", "history")
    /\ \E history \in RecentHistory("main", messages[chat[p].key]) :
         chat' = [chat EXCEPT ![p] = [@ EXCEPT !.pc = "model", !.history = history]]
    /\ UNCHANGED <<now, contentVars, userVars, messages, global_stats, api_key, upl, resp>>

\* Lines 208-227 and 249-251: the prompt is built and the model called; an
\* exception ends the request with the "System Error" reply.
chat_tutor_main_model(p) ==
    /\ At(p, "main", "model")
    /\ \E outcome \in ModelOutcomes :
         LET c == chat[p]
             req == c.req
             prompt == [built |-> TRUE,
                        system_instruction |->
                            get_system_instruction(req.class_level, req.group,
                                                   req.medium, req.subject),
                        book_context |-> PromptContext("main", c.book_context),
                        history |-> HistoryText(c.history),
                        message |-> req.message]
             called == [c EXCEPT !.prompt = prompt, !.outcome = outcome]
         IN  chat' = [chat EXCEPT ![p] =
                IF outcome = "ok"
                THEN [called EXCEPT !.pc = "stats", !.ai_reply = ModelReply]
                ELSE Finish(called, "model", Reply(SystemError(outcome)))]
    /\ UNCHANGED <<now, contentVars, userVars, messages, global_stats, api_key, upl, resp>>

\* Lines 230-239
chat_tutor_main_stats(p) ==
    /\ At(p, "main", "stats")
    /\ global_stats' = global_stats + ModelTokens
    /\ chat' = [chat EXCEPT ![p].pc = "reply"]
    /\ UNCHANGED <<now, contentVars, userVars, messages, api_key, upl, resp>>

\* Lines 241-247: the clock is read again for the AI message.
chat_tutor_main_reply(p) ==
    /\ At(p, "main", "reply")
    /\ \E t \in ClockReadings :
         /\ now' = t
         /\ messages' = [messages EXCEPT ![chat[p].key] =
               Append(@, Message(chat[p].ai_reply, "ai", t + 1, p))]
    /\ chat' = [chat EXCEPT ![p] = Finish(@, "none", Reply(chat[p].ai_reply))]
    /\ UNCHANGED <<contentVars, userVars, global_stats, api_key, upl, resp>>

\* ---- admin.py chat_tutor

\* Lines 343-361
chat_tutor_admin_start(p) ==
    /\ Arrives(p)
    /\ \E req \in ChatRequests("admin"), t \in ClockReadings :
         /\ now' = t
         /\ chat' = [chat EXCEPT ![p] = Started("admin", req, "user_msg", t)]
         /\ sessions' = [sessions EXCEPT ![ChatKey("admin", req)] =
               SetMerge(@, SessionUpdate("admin", req, t))]
    /\ UNCHANGED <<contentVars, users, messages, global_stats, api_key, upl, resp>>

\* Line 364
chat_tutor_admin_user_msg(p) ==
    /\ At(p, "admin", "user_msg")
    /\ messages' = [messages EXCEPT ![chat[p].key] =
          Append(@, Message(chat[p].req.message, "user", chat[p].timestamp, p))]
    /\ chat' = [chat EXCEPT ![p].pc = "usage"]
    /\ UNCHANGED <<now, contentVars, userVars, global_stats, api_key, upl, resp>>

\* Lines 368-371: update() raises when the user document does not exist.
chat_tutor_admin_usage(p) ==
    /\ At(p, "admin", "usage")
    /\ LET u == chat[p].req.user_id
       IN  IF users[u].exists
           THEN /\ users' = [users EXCEPT ![u] =
                     SetMerge(@, [total_usage |->
                                    Increment(users[u], "total_usage",
                                              chat[p].req.message.len \div 4),
                                  last_active |-> chat[p].timestamp])]
                /\ chat' = [chat EXCEPT ![p].pc = "context"]
           ELSE /\ chat' = [chat EXCEPT ![p] = Finish(@, "user_update", Http500)]
                /\ UNCHANGED users
    /\ UNCHANGED <<now, contentVars, sessions, messages, global_stats, api_key, upl, resp>>

\* Lines 374-376
chat_tutor_admin_context(p) ==
    /\ At(p, "admin", "context")
    /\ \E fault \in BOOLEAN :
         LET req == chat[p].req
             doc == book_content[BookKey(req.class_level, req.subject, req.chapter_id)]
             got == LookupContext("admin", doc, fault)
             read == [chat[p] EXCEPT
                          !.book_read = IF fault THEN "error"
                                        ELSE IF doc.exists THEN "doc" ELSE "missing",
                          !.book_doc = IF fault THEN NoDoc ELSE doc]
         IN  chat' = [chat EXCEPT ![p] =
                IF got.raised
                THEN Finish(read, "context", Http500)
                ELSE [read EXCEPT !.pc = "history", !.book_context = got.text]]
    /\ UNCHANGED <<now, contentVars, userVars, messages, global_stats, api_key, upl, resp>>

\* Lines 378-380
chat_tutor_admin_history(p) ==
    /\ At(p, "admin", "history")
    /\ \E history \in RecentHistory("admin", messages[chat[p].key]) :
         chat' = [chat EXCEPT ![p] = [@ EXCEPT !.pc = "model", !.history = history]]
    /\ UNCHANGED <<now, contentVars, userVars, messages, global_stats, api_key, upl, resp>>

\* Lines 382-395: without an API key the request to the model is refused.
chat_tutor_admin_model(p) ==
    /\ At(p, "admin", "model")
    /\ \E outcome \in ModelOutcomes :
         /\ ~api_key => outcome \in { "non200", "network" }
         /\ LET c == chat[p]
                req == c.req
                prompt == [built |-> TRUE,
                           system_instruction |->
                               AdminSystemInstruction(req.class_level, req.group, req.medium),
                           book_context |-> PromptContext("admin", c.book_context),
                           history |-> HistoryText(c.history),
                           message |-> req.message]
            IN  chat' = [chat EXCEPT ![p] =
                   [c EXCEPT !.pc = "reply", !.prompt = prompt, !.outcome = outcome,
                             !.ai_reply = call_gemini_raw(outcome)]]
    /\ UNCHANGED <<now, contentVars, userVars, messages, global_stats, api_key, upl, resp>>

\* Mutant: when the write of the AI message raises, the handler takes the
\* turn's user message back.
chat_tutor_admin_reply_Compensating(p) ==
    /\ At(p, "admin", "reply")
    /\ \E fault \in BOOLEAN :
         IF fault
         THEN /\ chat' = [chat EXCEPT ![p] = Finish(@, "ai_write", Http500)]
              /\ messages' = [messages EXCEPT ![chat[p].key] =
                    SelectSeq(@, LAMBDA m : m.turn # p)]
         ELSE /\ messages' = [messages EXCEPT ![chat[p].key] =
                    Append(@, Message(chat[p].ai_reply, "ai", chat[p].timestamp + 1, p))]
              /\ chat' = [chat EXCEPT ![p].pc = "usage_out"]
    /\ UNCHANGED <<now, contentVars, userVars, global_stats, api_key, upl, resp>>

\* Line 396: the AI message is stamped current_ts + 1; the write can raise.
chat_tutor_admin_reply(p) ==
    /\ At(p, "admin", "reply")
    /\ \E fault \in BOOLEAN :
         IF fault
         THEN /\ chat' = [chat EXCEPT ![p] = Finish(@, "ai_write", Http500)]
              /\ UNCHANGED messages
         ELSE /\ messages' = [messages EXCEPT ![chat[p].key] =
                    Append(@, Message(chat[p].ai_reply, "ai", chat[p].timestamp + 1, p))]
              /\ chat' = [chat EXCEPT ![p].pc = "usage_out"]
    /\ UNCHANGED <<now, contentVars, userVars, global_stats, api_key, upl, resp>>

\* Lines 399-401
chat_tutor_admin_usage_out(p) ==
    /\ At(p, "admin", "usage_out")
    /\ LET u == chat[p].req.user_id
       IN  users' = [users EXCEPT ![u] =
              SetMerge(@, [total_usage |->
                             Increment(users[u], "total_usage", chat[p].ai_reply.len \div 4)])]
    /\ chat' = [chat EXCEPT ![p] = Finish(@, "none", Reply(chat[p].ai_reply))]
    /\ UNCHANGED <<now, contentVars, sessions, messages, global_stats, api_key, upl, resp>>

\* ---- main.py POST /admin/context: the document is replaced (its updated_at
\* field, which no handler reads, is left out).
update_book_context ==
    /\ \E c \in ClassLevels, s \in ChatSubjects, ch \in ContextChapterIds,
          text_content \in ContextTexts :
         book_content' = [book_content EXCEPT ![BookKey(c, s, ch)] =
                             Doc([text_content |-> text_content])]
    /\ UNCHANGED <<now, curriculum_metadata, userVars, chatVars, upl, resp>>

\* ---- GET /history

\* admin.py get_history: target_id, or NoSessionId when there is none
HistoryTarget(session_id, subject, chapter) ==
    IF session_id # NoSessionId THEN session_id
    ELSE IF subject # NoSessionId /\ chapter # NoSessionId THEN Join2(subject, chapter)
    ELSE NoSessionId

HistoryEntry(m) == [text |-> m.text, isUser |-> m.sender = "user", time |-> m.timestamp]

\* order_by("timestamp").limit(n), as the response's messages
HistoryPages(M, n) ==
    { [k \in 1..Len(page) |-> HistoryEntry(M[page[k]])] :
        page \in { Limit(a, n) : a \in AscOrders(M, 1..Len(M)) } }

\* main.py get_chat_history(user_id, session_id);
\* admin.py get_history(user_id, session_id, subject, chapter).
\* The handlers only read: the responses they can give in a state.
GetHistory(h, req) ==
    IF h = "main"
    THEN HistoryPages(messages[<<req.user_id, req.session_id>>], HistoryPageMain)
    ELSE LET target_id == HistoryTarget(req.session_id, req.subject, req.chapter)
         IN  IF target_id = NoSessionId THEN { <<>> }
             ELSE HistoryPages(messages[<<req.user_id, target_id>>], HistoryPageAdmin)

----------------------------------------------------------------------------
\* The chat service

\* users/u1 exists, as update_user_profile leaves it; users/u2 does not.
Init ==
    /\ now = 0
    /\ book_content = [k \in BookKeys |-> NoDoc]
    /\ curriculum_metadata = [k \in CurrKeys |-> NoDoc]
    /\ users = [u \in UserIds |->
                  IF u = "u1" THEN Doc([mobile |-> "m1", last_active |-> 0]) ELSE NoDoc]
    /\ sessions = [k \in SessionKeys |-> NoDoc]
    /\ messages = [k \in SessionKeys |-> <<>>]
    /\ global_stats = 0
    /\ api_key \in BOOLEAN
    /\ chat = [p \in ChatProcs |-> IdleChat]
    /\ upl = [p \in UploadProcs |-> IdleUpload]
    /\ resp = NoResponse

Next ==
    \/ update_book_context
    \/ \E p \in ChatProcs :
         \/ chat_tutor_main_start(p)
         \/ chat_tutor_main_session(p)
         \/ chat_tutor_main_context(p)
         \/ chat_tutor_main_history(p)
         \/ chat_tutor_main_model(p)
         \/ chat_tutor_main_stats(p)
         \/ chat_tutor_main_reply(p)
         \/ chat_tutor_admin_start(p)
         \/ chat_tutor_admin_user_msg(p)
         \/ chat_tutor_admin_usage(p)
         \/ chat_tutor_admin_context(p)
         \/ chat_tutor_admin_history(p)
         \/ chat_tutor_admin_model(p)
         \/ chat_tutor_admin_reply(p)
         \/ chat_tutor_admin_usage_out(p)

Spec == Init /\ [][Next]_vars

----------------------------------------------------------------------------
\* The chat service on a session that already holds a thread

\* The turns answered before the clock's origin
EarlierTurns == 5

\* The thread five earlier admin.py turns have left: each turn's user
\* message and, one millisecond later, its AI message, the turns one
\* millisecond apart. Their turn number is 0.
EarlierThread ==
    [i \in 1..(2 * EarlierTurns) |->
        Message(IF i % 2 = 1 THEN QuestionLong ELSE ModelReply,
                IF i % 2 = 1 THEN "user" ELSE "ai",
                i - 2 * EarlierTurns - 1, 0)]

ThreadKey == << "u1", <<"s", "1">> >>

InitHistory ==
    /\ now = 0
    /\ book_content = [k \in BookKeys |-> NoDoc]
    /\ curriculum_metadata = [k \in CurrKeys |-> NoDoc]
    /\ users = [u \in UserIds |->
                  IF u = "u1" THEN Doc([mobile |-> "m1", last_active |-> 0]) ELSE NoDoc]
    /\ sessions = [k \in SessionKeys |->
                     IF k = ThreadKey
                     THEN Doc(SessionUpdate("admin",
                                 [subject |-> <<"P">>, chapter_id |-> <<"c", "1">>,
                                  class_level |-> <<"C", " ", "9">>, group |-> <<"S">>,
                                  message |-> QuestionLong],
                                 EarlierThread[2 * EarlierTurns - 1].timestamp))
                     ELSE NoDoc]
    /\ messages = [k \in SessionKeys |-> IF k = ThreadKey THEN EarlierThread ELSE <<>>]
    /\ global_stats = 0
    /\ api_key = TRUE
    /\ chat = [p \in ChatProcs |-> IdleChat]
    /\ upl = [p \in UploadProcs |-> IdleUpload]
    /\ resp = NoResponse

SpecHistory == InitHistory /\ [][Next]_vars

----------------------------------------------------------------------------
\* Chat turns together with the renaming and deleting of sessions

chat_tutor(p) ==
    \/ chat_tutor_main_start(p)
    \/ chat_tutor_main_session(p)
    \/ chat_tutor_main_context(p)
    \/ chat_tutor_main_history(p)
    \/ chat_tutor_main_model(p)
    \/ chat_tutor_main_stats(p)
    \/ chat_tutor_main_reply(p)
    \/ chat_tutor_admin_start(p)
    \/ chat_tutor_admin_user_msg(p)
    \/ chat_tutor_admin_usage(p)
    \/ chat_tutor_admin_context(p)
    \/ chat_tutor_admin_history(p)
    \/ chat_tutor_admin_model(p)
    \/ chat_tutor_admin_reply(p)
    \/ chat_tutor_admin_usage_out(p)

InitSessions ==
    /\ now = 0
    /\ book_content = [k \in BookKeys |-> NoDoc]
    /\ curriculum_metadata = [k \in CurrKeys |-> NoDoc]
    /\ users = [u \in UserIds |->
                  IF u = "u1" THEN Doc([mobile |-> "m1", last_active |-> 0]) ELSE NoDoc]
    /\ sessions = [k \in SessionKeys |-> NoDoc]
    /\ messages = [k \in SessionKeys |-> <<>>]
    /\ global_stats = 0
    /\ api_key = TRUE
    /\ chat = [p \in ChatProcs |-> IdleChat]
    /\ upl = [p \in UploadProcs |-> IdleUpload]
    /\ resp = NoResponse

\* The sessions chat turns have been answered in
AnsweredKeys == { chat[p].key : p \in { q \in ChatProcs : chat[q].pc = "done" } }

\* The client renames and deletes sessions it has chatted in, while no chat
\* request is in flight and another is still to come.
NextSessions ==
    \/ \E p \in ChatProcs : chat_tutor(p)
    \/ /\ \A p \in ChatProcs : chat[p].pc \in { "idle", "done" }
       /\ \E p \in ChatProcs : chat[p].pc = "idle"
       /\ \E h \in Handlers, key \in AnsweredKeys :
            \/ \E new_title \in NewTitles : rename_session_of(h, key[1], key[2], new_title)
            \/ delete_session_of(h, key[1], key[2])

SpecSessions == InitSessions /\ [][NextSessions]_vars

----------------------------------------------------------------------------
\* Properties of admin_upload_content

Ids(subject_list) == { subject_list[i].id : i \in 1..Len(subject_list) }

\* The chapter list stored for a request's class, group and subject.
StoredList(data) ==
    GetList(ToDictOrEmpty(curriculum_metadata[CurrKey(data.class_level, data.group)]),
            data.subject)

UploadSucceeded(p) == upl[p].pc = "done" /\ upl[p].status = 200

\* C4: the write-back of admin_upload_content replaces the entry with the
\* request's chapter id in place (same length, every other entry unchanged
\* at its position, exactly one entry with that id, which is the new
\* descriptor) and appends the descriptor when the id is not in the list.
\* The list is the one the request read, which is the stored list whenever
\* no other write-back came between the request's read and its write.
C4_ReplaceOrAppend ==
    [][\A p \in UploadProcs :
         admin_upload_content_write(p) =>
           LET data == upl[p].data
               old == upl[p].subject_list
               meta == NewChapterMeta(data)
               new == GetList(ToDictOrEmpty(
                          curriculum_metadata'[CurrKey(data.class_level, data.group)]),
                          data.subject)
           IN  /\ (upl[p].overlapped = {}) => (old = StoredList(data))
               /\ IF data.chapter_id \in Ids(old)
                  THEN /\ Len(new) = Len(old)
                       /\ \A i \in 1..Len(old) :
                             old[i].id # data.chapter_id => new[i] = old[i]
                       /\ Cardinality({ i \in 1..Len(new) : new[i].id = data.chapter_id }) = 1
                       /\ \A i \in 1..Len(new) :
                             new[i].id = data.chapter_id => new[i] = meta
                  ELSE new = Append(old, meta)
    ]_vars

\* C4 witness: a request has replaced an entry of a list that holds other
\* entries, changing its titles.
C4_Witness_ReplacedInPlace ==
    \E p \in UploadProcs :
        /\ UploadSucceeded(p)
        /\ upl[p].overlapped = {}
        /\ Len(upl[p].read_list) >= 2
        /\ \E i \in 1..Len(upl[p].read_list) :
              /\ upl[p].read_list[i].id = upl[p].data.chapter_id
              /\ upl[p].read_list[i] # NewChapterMeta(upl[p].data)
              /\ Len(StoredList(upl[p].data)) = Len(upl[p].read_list)
              /\ StoredList(upl[p].data)[i] = NewChapterMeta(upl[p].data)

\* C10: when no request's write-back falls between another request's read
\* and write (the requests ran one after the other), the chapter of every
\* request that answered success is in the stored list.
C10_SequentialKeepsBoth ==
    (\A r \in UploadProcs : UploadSucceeded(r) => upl[r].overlapped = {})
        => \A p \in UploadProcs :
             UploadSucceeded(p) => upl[p].data.chapter_id \in Ids(StoredList(upl[p].data))

\* C10 witness: two requests for different chapters of the same class,
\* group and subject have both answered success, their read and write-back
\* interleaved, and the stored list holds only one of the two chapters.
C10_Witness_LostUpdate ==
    \E p, q \in UploadProcs :
        /\ p # q
        /\ UploadSucceeded(p) /\ UploadSucceeded(q)
        /\ upl[p].data.class_level = upl[q].data.class_level
        /\ upl[p].data.group = upl[q].data.group
        /\ upl[p].data.subject = upl[q].data.subject
        /\ upl[p].data.chapter_id # upl[q].data.chapter_id
        /\ p \in upl[q].overlapped
        /\ upl[p].data.chapter_id \notin Ids(StoredList(upl[p].data))
        /\ upl[q].data.chapter_id \in Ids(StoredList(upl[q].data))

----------------------------------------------------------------------------
\* Properties of the user and session endpoints

AnswersAvailable(r) == r.status = 200 /\ r.available = TRUE

\* C5: whenever a user document with the requested mobile or the requested
\* email exists, check_availability answers unavailable with HTTP 409 and
\* never {available: true}, also when a database query fails.
C5_TakenAnswers409 ==
    resp.op = "check_availability" =>
        LET taken == UserWith("mobile", resp.req.mobile) \/ UserWith("email", resp.req.email)
        IN  taken => (resp.result.status = 409 /\ ~AnswersAvailable(resp.result))

\* C9: a request that names a missing user (get_profile, get_user_profile) or
\* a missing session (rename_session) is answered with HTTP 404.
C9_MissingIs404 ==
    /\ (resp.op = "get_profile" /\ ~users[resp.req.user_id].exists)
          => resp.result.status = 404
    /\ (resp.op = "rename_session"
          /\ ~sessions[<<resp.req.user_id, resp.req.session_id>>].exists)
          => resp.result.status = 404

----------------------------------------------------------------------------
\* Properties of the chat handlers

Running(p) == chat[p].pc # "idle"
Answered(p) == chat[p].pc = "done"

\* The messages a chat request has written, in the order it wrote them
TurnMessages(p) ==
    LET M == messages[chat[p].key]
        F(m) == m.turn = p
    IN  SelectSeq(M, F)

\* The request has written its user message and then its AI message.
WrotePair(p) ==
    LET T == TurnMessages(p)
    IN  /\ Len(T) = 2
        /\ T[1].sender = "user" /\ T[1].text = chat[p].req.message
        /\ T[2].sender = "ai" /\ T[2].text = chat[p].ai_reply

\* C1: in every chat turn the timestamp stored on the AI message is the
\* timestamp stored on the turn's user message plus one millisecond.
C1_AiStampIsUserStampPlusOne ==
    \A k \in SessionKeys :
        \A i, j \in 1..Len(messages[k]) :
            ( /\ messages[k][i].turn = messages[k][j].turn
              /\ messages[k][i].sender = "user"
              /\ messages[k][j].sender = "ai" )
            => messages[k][j].timestamp = messages[k][i].timestamp + 1

\* C2: when the lookup of a chat request found a book_content document, the
\* context in the prompt is the document's text cut to the character budget,
\* so it is never longer than the budget, in both handlers.
C2_ContextCutToBudget ==
    \A p \in ChatProcs :
        (Running(p) /\ chat[p].prompt.built /\ chat[p].book_read = "doc")
        => /\ chat[p].prompt.book_context =
                 Slice(TextContent(chat[p].book_doc), ContextBudget)
           /\ chat[p].prompt.book_context.len <= ContextBudget

\* C3: a chat request whose lookup found no book_content document carries
\* the handler's fallback string as the context of its prompt ("" in
\* main.py, the general-knowledge sentence in admin.py), and, no database
\* operation having raised, it ends with both its messages written.
C3_FallbackAndBothWritten ==
    \A p \in ChatProcs :
        (Running(p) /\ chat[p].book_read = "missing")
        => /\ chat[p].prompt.built =>
                 chat[p].prompt.book_context =
                    (IF chat[p].handler = "main" THEN EmptyText
                     ELSE [src |-> "No specific book content found. Use general knowledge.",
                           len |-> 54])
           /\ (Answered(p) /\ chat[p].failed_at \in { "none", "model" }) => WrotePair(p)

\* The request get_history is called with for a chat request's user, subject
\* and chapter and no session id
HistoryRequestFor(req) ==
    [user_id |-> req.user_id, session_id |-> NoSessionId,
     subject |-> req.subject, chapter |-> req.chapter_id]

\* The history entries of a message collection, as a set
Entries(M) == { HistoryEntry(M[i]) : i \in 1..Len(M) }
PageEntries(page) == { page[i] : i \in 1..Len(page) }

\* C6: an admin.py chat request writes under the caller's session id when
\* one is given and under subject_chapter otherwise: its messages are in
\* that collection and in no other, the step that writes the session
\* metadata writes that session document and no other, and get_history for
\* the same user, subject and chapter and no session id answers with
\* exactly the messages of the collection a request with no session id
\* wrote to (the collection holds fewer than the page of 50).
C6_OneKeyPerTurn ==
    /\ [](\A p \in ChatProcs :
            (Running(p) /\ chat[p].handler = "admin")
            => LET req == chat[p].req
                   sid == IF req.session_id # NoSessionId THEN req.session_id
                          ELSE req.subject \o <<"_">> \o req.chapter_id
               IN  /\ chat[p].key = <<req.user_id, sid>>
                   /\ \A k \in SessionKeys :
                         (\E i \in 1..Len(messages[k]) : messages[k][i].turn = p)
                         => k = chat[p].key
                   /\ req.session_id = NoSessionId =>
                         \A page \in GetHistory("admin", HistoryRequestFor(req)) :
                            /\ Len(page) = Len(messages[chat[p].key])
                            /\ PageEntries(page) = Entries(messages[chat[p].key]))
    /\ [][\A p \in ChatProcs :
            chat_tutor_admin_start(p) =>
              /\ sessions'[chat'[p].key].exists
              /\ \A k \in SessionKeys : k # chat'[p].key => sessions'[k] = sessions[k]]_vars

\* C6 witness: an admin.py request with no session id has been answered, both
\* its messages are under subject_chapter, and get_history for its subject
\* and chapter answers with them.
C6_Witness_DerivedKeyRead ==
    \E p \in ChatProcs :
        /\ Answered(p) /\ chat[p].handler = "admin"
        /\ chat[p].req.session_id = NoSessionId
        /\ chat[p].key = <<chat[p].req.user_id, <<"P", "_", "c", "1">> >>
        /\ WrotePair(p)
        /\ \E page \in GetHistory("admin", HistoryRequestFor(chat[p].req)) :
              /\ Len(page) >= 2
              /\ \E i, j \in 1..Len(page) :
                    /\ page[i] = [text |-> chat[p].req.message, isUser |-> TRUE,
                                  time |-> chat[p].timestamp]
                    /\ page[j] = [text |-> chat[p].ai_reply, isUser |-> FALSE,
                                  time |-> chat[p].timestamp + 1]

\* C7: a chat turn that returns a reply has added exactly two messages to
\* its session, the user message with the request text and then the AI
\* message with the returned reply.
C7_ReplyMeansPairWritten ==
    \A p \in ChatProcs :
        (Answered(p) /\ chat[p].result.status = 200)
        => LET T == TurnMessages(p)
           IN  /\ Len(T) = 2
               /\ T[1].sender = "user" /\ T[1].text = chat[p].req.message
               /\ T[2].sender = "ai" /\ T[2].text = chat[p].result.reply

\* C8: when the call to the model fails (and no database step raises), the
\* handler answers normally and the reply is one of the fixed apology
\* strings, whatever the error was.
C8_FailureGivesFixedApology ==
    \A p \in ChatProcs :
        ( /\ Answered(p)
          /\ chat[p].outcome \in { "network", "non200", "bad_body" }
          /\ chat[p].failed_at \in { "none", "model" } )
        => /\ chat[p].result.status = 200
           /\ chat[p].result.reply \in { ApologyThinking, ApologyConnecting }

\* The steps of a chat turn, after the user message is written, that can raise
FailureSteps == { "model", "user_update", "context", "ai_write" }

FailedTurn(c) == c.pc = "done" /\ c.failed_at \in FailureSteps

\* C11: a chat turn that fails after its user message was written has
\* exactly that user message, and no AI message, in the session; the step
\* that fails changes no collection, the session document then holds the
\* metadata the turn wrote, and no later step changes the turn's messages.
C11_PartialTurnStays ==
    /\ [](\A p \in ChatProcs :
            (Running(p) /\ FailedTurn(chat[p]))
            => /\ TurnMessages(p) =
                    << Message(chat[p].req.message, "user", chat[p].timestamp, p) >>
               /\ sessions[chat[p].key].exists)
    /\ [][\A p \in ChatProcs :
            /\ (~Answered(p) /\ chat'[p].pc = "done" /\ FailedTurn(chat'[p]))
               => /\ messages' = messages /\ sessions' = sessions /\ users' = users
                  /\ global_stats' = global_stats /\ book_content' = book_content
                  /\ LET written == SessionUpdate(chat'[p].handler, chat'[p].req,
                                                  chat'[p].timestamp)
                     IN  \A f \in DOMAIN written :
                            sessions[chat'[p].key].data[f] = written[f]
            /\ Answered(p) => TurnMessages(p)' = TurnMessages(p)]_vars

\* C11 witness: an admin.py turn has failed at the write of its AI message,
\* and a second turn has since been answered in the same session.
C11_Witness_FailedTurnKept ==
    \E p, q \in ChatProcs :
        /\ p < q /\ Answered(p) /\ Answered(q) /\ chat[q].key = chat[p].key
        /\ chat[p].failed_at = "ai_write"
        /\ TurnMessages(p) = << Message(chat[p].req.message, "user", chat[p].timestamp, p) >>
        /\ sessions[chat[p].key].exists

\* C14: in a session's messages, taken in the order they were written, a
\* turn's user message has a smaller timestamp than its AI reply, and every
\* message of a turn that was answered with a reply has a smaller timestamp
\* than every message written after it by a later turn; so sorting by
\* timestamp keeps the order of writing and no two of them share a timestamp.
C14_TimestampsFollowWrites ==
    \A k \in SessionKeys :
        \A i, j \in 1..Len(messages[k]) :
            LET a == messages[k][i]
                b == messages[k][j]
            IN  ( /\ i < j
                  /\ \/ a.turn = b.turn
                     \/ Answered(a.turn) /\ chat[a.turn].failed_at = "none" )
                => a.timestamp < b.timestamp

\* C16: a chat turn whose read of the book_content document raised does not
\* end at the read, and, nothing else having raised, it ends with the reply
\* returned and both messages written.
C16_LookupErrorSwallowed ==
    \A p \in ChatProcs :
        (Running(p) /\ chat[p].book_read = "error")
        => /\ chat[p].failed_at # "context"
           /\ (Answered(p) /\ chat[p].failed_at = "none")
                 => (chat[p].result.status = 200 /\ WrotePair(p))

\* The context a chat turn of handler h obtains for a selector
ContextFor(h, B, class_level, subject, chapter_id) ==
    LookupContext(h, B[BookKey(class_level, subject, chapter_id)], FALSE).text

\* C18: a step that stores a text for one (class_level, subject,
\* chapter_id) leaves the context a chat turn obtains for every other
\* selector as it was.
C18_UploadLeavesOtherSelectors ==
    [][\A c \in ClassLevels, s \in Subjects, ch \in ChapterIds, x \in ContextTexts :
         ( /\ book_content' # book_content
           /\ book_content' = [book_content EXCEPT ![BookKey(c, s, ch)] =
                                   Doc([text_content |-> x])] )
         => \A c2 \in ClassLevels, s2 \in Subjects, ch2 \in ChapterIds, h \in Handlers :
               <<c2, s2, ch2>> # <<c, s, ch>>
               => ContextFor(h, book_content', c2, s2, ch2)
                    = ContextFor(h, book_content, c2, s2, ch2)]_vars

\* No two entries of a chapter list have the same id.
DistinctIds(subject_list) ==
    \A i, j \in 1..Len(subject_list) :
        subject_list[i].id = subject_list[j].id => i = j

\* C17: no chapter list of any curriculum document holds two entries with
\* the same id, whatever the order of the uploads' reads and write-backs.
C17_NoDuplicateChapterIds ==
    \A k \in CurrKeys :
        curriculum_metadata[k].exists
        => \A s \in DOMAIN curriculum_metadata[k].data :
              DistinctIds(curriculum_metadata[k].data[s])

\* C17 witness: two uploads of the same chapter of the same subject have
\* both succeeded, each having read the list before the other wrote it
\* back, and the stored list holds that chapter once.
C17_Witness_SameChapterInterleaved ==
    \E p, q \in UploadProcs :
        /\ p # q /\ UploadSucceeded(p) /\ UploadSucceeded(q)
        /\ upl[p].data.subject = upl[q].data.subject
        /\ upl[p].data.chapter_id = upl[q].data.chapter_id
        /\ upl[p].read_list = upl[q].read_list
        /\ upl[p].data.chapter_id \notin Ids(upl[p].read_list)
        /\ (p \in upl[q].overlapped \/ q \in upl[p].overlapped)
        /\ Cardinality({ i \in 1..Len(StoredList(upl[p].data)) :
                            StoredList(upl[p].data)[i].id = upl[p].data.chapter_id }) = 1

\* C12: the history a chat turn has read for its prompt is the 10 most
\* recent messages of the session by timestamp (all of them when there are
\* fewer), in ascending order of timestamp, and the turn's own user message
\* is among them.
C12_HistoryIsLastTen ==
    \A p \in ChatProcs :
        (Running(p) /\ chat[p].pc = "model")
        => LET M == messages[chat[p].key]
               H == chat[p].history
               read == { H[a] : a \in 1..Len(H) }
               rest == { M[i] : i \in 1..Len(M) } \ read
           IN  /\ Len(H) = Min(HistoryLimit, Len(M))
               /\ \A a, b \in 1..Len(H) : a < b => H[a].timestamp <= H[b].timestamp
               /\ \A m \in rest, h \in read : m.timestamp <= h.timestamp
               /\ Message(chat[p].req.message, "user", chat[p].timestamp, p) \in read

\* The fields of a session document a chat turn writes
SessionFields == { "subject", "chapter", "class_level", "group", "updated_at", "last_message" }

\* C13: a step of a chat turn changes no session document but the turn's
\* own, and in that one every field other than subject, chapter,
\* class_level, group, updated_at and last_message, custom_title among
\* them, keeps its value, and no other field is added.
C13_ChatKeepsOtherFields ==
    [][\A p \in ChatProcs :
          chat_tutor(p)
          => \A k \in SessionKeys :
                LET old == ToDictOrEmpty(sessions[k])
                    new == ToDictOrEmpty(sessions'[k])
                IN  /\ k # chat'[p].key => sessions'[k] = sessions[k]
                    /\ sessions[k].exists => sessions'[k].exists
                    /\ (DOMAIN new) \subseteq (DOMAIN old) \cup SessionFields
                    /\ \A f \in (DOMAIN old) \ SessionFields :
                          f \in DOMAIN new /\ new[f] = old[f]]_vars

\* C13 witness: a session was renamed after one chat turn, a second turn in
\* it has been answered, and the document holds the title and the second
\* turn's metadata.
C13_Witness_TitleSurvivesTurn ==
    \E p, q \in ChatProcs :
        /\ q < p /\ Answered(q) /\ Answered(p) /\ chat[p].key = chat[q].key
        /\ sessions[chat[p].key].exists
        /\ "custom_title" \in DOMAIN sessions[chat[p].key].data
        /\ sessions[chat[p].key].data.custom_title = "My chat"
        /\ sessions[chat[p].key].data.updated_at = chat[p].timestamp
        /\ sessions[chat[p].key].data.chapter = chat[p].req.chapter_id

\* The messages of m's collection that a handler's history read returned
InHistory(m, history) == \E a \in 1..Len(history) : history[a] = m

\* C15: delete_session deletes the session document and nothing else: the
\* messages are as they were and the history endpoint answers as before; no
\* step ever removes a message; the history endpoint answers with the
\* messages of a session that has no document; and a chat turn on the same
\* key has recreated the document once it has written it and reads the
\* earlier turns' messages as its prompt history.
C15_DeleteOrphansMessages ==
    /\ [][\A h \in Handlers, k \in SessionKeys :
            delete_session_of(h, k[1], k[2])
            => /\ messages' = messages
               /\ ~sessions'[k].exists
               /\ \A k2 \in SessionKeys : k2 # k => sessions'[k2] = sessions[k2]
               /\ GetHistory("main", [user_id |-> k[1], session_id |-> k[2]])'
                     = GetHistory("main", [user_id |-> k[1], session_id |-> k[2]])]_vars
    /\ [][\A k \in SessionKeys :
            /\ Len(messages[k]) <= Len(messages'[k])
            /\ SubSeq(messages'[k], 1, Len(messages[k])) = messages[k]]_vars
    /\ [](\A k \in SessionKeys :
            ~sessions[k].exists
            => \A h \in Handlers :
                 \A page \in GetHistory(h, [user_id |-> k[1], session_id |-> k[2],
                                              subject |-> NoSessionId, chapter |-> NoSessionId]) :
                    /\ Len(page) = Len(messages[k])
                    /\ PageEntries(page) = Entries(messages[k]))
    /\ [](\A p \in ChatProcs :
            (Running(p) /\ chat[p].pc \in { "model", "stats", "reply", "usage_out" })
            => /\ sessions[chat[p].key].exists
               /\ \A q \in ChatProcs :
                     (q < p /\ Running(q) /\ chat[q].key = chat[p].key)
                     => \A i \in 1..Len(TurnMessages(q)) :
                           InHistory(TurnMessages(q)[i], chat[p].history))

\* C15 witness: a session with a turn's two messages was deleted, and a
\* later chat turn on the same key has written the document again and has
\* read both earlier messages as its history.
C15_Witness_RecreatedWithThread ==
    \E p, q \in ChatProcs :
        /\ q < p /\ Answered(q) /\ WrotePair(q)
        /\ chat[p].pc = "model" /\ chat[p].key = chat[q].key
        /\ resp.op = "delete_session"
        /\ <<resp.req.user_id, resp.req.session_id>> = chat[p].key
        /\ sessions[chat[p].key].exists
        /\ "custom_title" \notin DOMAIN sessions[chat[p].key].data
        /\ Len(chat[p].history) = 3
        /\ InHistory(TurnMessages(q)[1], chat[p].history)
        /\ InHistory(TurnMessages(q)[2], chat[p].history)

====
